---------------------------- MODULE Spec2Model ----------------------------
(***************************************************************************)
(* A model of the JOS kernel monitor, kern/monitor.c: the command loop     *)
(* monitor(), the line interpreter runcmd() and the command handlers       *)
(* mon_help, mon_kerninfo, mon_backtrace, mon_showmappings, mon_continue   *)
(* and mon_si.                                                             *)
(*                                                                         *)
(* Characters are one-character strings, a C string is a sequence of       *)
(* characters, and the terminating 0 byte is the value NUL.  A 32-bit      *)
(* address is a record [hi, lo] of its upper 20 bits (the page number) and *)
(* its lower 12 bits (the offset in the page); the flag words, which stay  *)
(* below 2^31, are naturals.                                               *)
(***************************************************************************)
EXTENDS Integers, Sequences, FiniteSets, TLC

VARIABLES
    pc,         \* where control is: "readline", "showmappings", "exited",
                \* "resumed", "panicked", "fault"
    tf,         \* monitor()'s argument: the saved trap frame, or NULL
    entry_tf,   \* the value of tf when monitor() was entered
    typed,      \* the tokens the operator typed on the last line
    buf,        \* the line buffer of the last line, as runcmd left it
    argc,       \* runcmd's argc for the last line
    argv,       \* runcmd's argv: indices into buf
    path,       \* what runcmd did with the last line: "none", "empty",
                \* "overflow", "unknown" or "handler"
    func,       \* the handler runcmd invoked for the last line, or "none"
    ret,        \* the value runcmd returned for the last line
    out,        \* what the last line printed on the console
    walks,      \* the addresses the last line passed to pgdir_walk
    read_ebp,   \* the frame base mon_backtrace started from on the last line
    start_addr, \* mon_showmappings' locals
    end_addr,
    page_addr,
    null_deref  \* a handler read or wrote through a NULL tf

vars == <<pc, tf, entry_tf, typed, buf, argc, argv, path, func, ret, out,
          walks, read_ebp, start_addr, end_addr, page_addr, null_deref>>

-----------------------------------------------------------------------------
(* Bounds of the model *)

\* The longest line the operator types, in tokens.
MaxTokens == 17
\* The number of per-page lines a single showmappings may print.
MaxLines == 3
\* The deepest frame-pointer chain.
MaxDepth == 2

-----------------------------------------------------------------------------
(* Machine words *)

\* A uint32_t address: hi * 4096 + lo.
U32(hi, lo) == [hi |-> hi, lo |-> lo]

PageNumbers == 2 ^ 20

\* a < b on uint32_t
Lt(a, b) == a.hi < b.hi \/ (a.hi = b.hi /\ a.lo < b.lo)

\* a < b with both read as int32_t
SignedLt(a, b) ==
    LET na == a.hi >= 2 ^ 19
        nb == b.hi >= 2 ^ 19
    IN  IF na # nb THEN na ELSE Lt(a, b)

NUL == "NUL"

NULL == [null |-> TRUE]

\* Bit b of word w.
Bit(w, b) == (w \div (2 ^ b)) % 2
\* w & ~(1 << b)
ClearBit(w, b) == w - Bit(w, b) * (2 ^ b)
\* w | (1 << b)
SetBit(w, b) == w + (1 - Bit(w, b)) * (2 ^ b)
\* w & m, for a mask m of the single bit b
MaskBit(w, b) == Bit(w, b) * (2 ^ b)

PGSIZE == 4096

\* ROUNDDOWN(a, PGSIZE)
ROUNDDOWN(a) == U32(a.hi, 0)

\* a + PGSIZE on uint32_t: the sum wraps modulo 2^32.
AddPage(a) == U32((a.hi + 1) % PageNumbers, a.lo)

T_DEBUG == 1
T_BRKPT == 3
T_PGFLT == 14

\* The trace flag of eflags: bit 8.
FL_TF_SHIFT == 8

-----------------------------------------------------------------------------
(* The console *)

Msg(fmt, str, nums) == [fmt |-> fmt, str |-> str, nums |-> nums]

-----------------------------------------------------------------------------
(* The command table *)

tok_help == <<"h", "e", "l", "p">>
tok_kerninfo == <<"k", "e", "r", "n", "i", "n", "f", "o">>
tok_backtrace == <<"b", "a", "c", "k", "t", "r", "a", "c", "e">>
tok_showmappings == <<"s", "h", "o", "w", "m", "a", "p", "p", "i", "n", "g", "s">>
tok_continue == <<"c", "o", "n", "t", "i", "n", "u", "e">>
tok_c == <<"c">>
tok_si == <<"s", "i">>

commands == <<
    [name |-> tok_help, func |-> "mon_help"],
    [name |-> tok_kerninfo, func |-> "mon_kerninfo"],
    [name |-> tok_backtrace, func |-> "mon_backtrace"],
    [name |-> tok_showmappings, func |-> "mon_showmappings"],
    [name |-> tok_continue, func |-> "mon_continue"],
    [name |-> tok_c, func |-> "mon_continue"],
    [name |-> tok_si, func |-> "mon_si"] >>

NCOMMANDS == Len(commands)

-----------------------------------------------------------------------------
(* runcmd: parsing the command buffer *)

WHITESPACE == {"\t", "\r", "\n", " "}

MAXARGS_off_by_one == 16 + 1

MAXARGS == 16

\* *p for p = buf + i - 1: the buffer ends with a 0 byte.
At(b, i) == IF i > Len(b) THEN NUL ELSE b[i]

IsSpace_no_tab(ch) == ch \in (WHITESPACE \ {"\t"})

IsSpace_no_cr(ch) == ch \in (WHITESPACE \ {"\r"})

\* strchr(WHITESPACE, ch) for ch # 0
IsSpace(ch) == ch \in WHITESPACE

\* while (*buf && strchr(WHITESPACE, *buf)) *buf++ = 0;
RECURSIVE Gobble(_, _)
Gobble(b, i) ==
    IF At(b, i) # NUL /\ IsSpace(At(b, i))
    THEN Gobble([b EXCEPT ![i] = NUL], i + 1)
    ELSE [buf |-> b, i |-> i]

\* while (*buf && !strchr(WHITESPACE, *buf)) buf++;
RECURSIVE ScanArg(_, _)
ScanArg(b, i) ==
    IF At(b, i) # NUL /\ ~IsSpace(At(b, i))
    THEN ScanArg(b, i + 1)
    ELSE i

\* The parsing loop of runcmd, from position i with the arguments av found
\* so far.  overflow: the loop returned through "Too many arguments".
RECURSIVE ParseFrom(_, _, _)
ParseFrom(b, i, av) ==
    LET g == Gobble(b, i) IN
    IF At(g.buf, g.i) = NUL
    THEN [buf |-> g.buf, argv |-> av, overflow |-> FALSE]
    ELSE IF Len(av) = MAXARGS - 1
    THEN [buf |-> g.buf, argv |-> av, overflow |-> TRUE]
    ELSE ParseFrom(g.buf, ScanArg(g.buf, g.i), Append(av, g.i))

Parse(line) == ParseFrom(line, 1, <<>>)

\* The C string that starts at index i of b.
RECURSIVE CStr(_, _)
CStr(b, i) ==
    IF At(b, i) = NUL THEN <<>> ELSE <<b[i]>> \o CStr(b, i + 1)

RECURSIVE Lookup_prefix(_, _)
Lookup_prefix(name, i) ==
    IF i > NCOMMANDS THEN 0
    ELSE IF /\ Len(name) <= Len(commands[i].name)
            /\ name = SubSeq(commands[i].name, 1, Len(name))
         THEN i
    ELSE Lookup_prefix(name, i + 1)

RECURSIVE Lookup_default_first(_, _)
Lookup_default_first(name, i) ==
    IF i > NCOMMANDS THEN 1
    ELSE IF name = commands[i].name THEN i
    ELSE Lookup_default_first(name, i + 1)

\* for (i = 0; i < NCOMMANDS; i++) if (strcmp(argv[0], commands[i].name) == 0)
\* The index of the entry found, from entry i on, or 0.
RECURSIVE Lookup(_, _)
Lookup(name, i) ==
    IF i > NCOMMANDS THEN 0
    ELSE IF name = commands[i].name THEN i
    ELSE Lookup(name, i + 1)

-----------------------------------------------------------------------------
(* strtol(s, 0, 16), cast to uint32_t *)

HexDigits == <<"0", "1", "2", "3", "4", "5", "6", "7", "8", "9",
               "a", "b", "c", "d", "e", "f">>
HexDigitsUpper == <<"0", "1", "2", "3", "4", "5", "6", "7", "8", "9",
                    "A", "B", "C", "D", "E", "F">>

\* The value of ch as a base-16 digit, or -1.
DigitVal(ch) ==
    IF \E k \in 1..16 : HexDigits[k] = ch
    THEN (CHOOSE k \in 1..16 : HexDigits[k] = ch) - 1
    ELSE IF \E k \in 1..16 : HexDigitsUpper[k] = ch
    THEN (CHOOSE k \in 1..16 : HexDigitsUpper[k] = ch) - 1
    ELSE -1

\* val * 16 + dig in 32 bits
ShiftIn(val, dig) ==
    U32((val.hi * 16 + val.lo \div 256) % PageNumbers, (val.lo % 256) * 16 + dig)

\* -val in 32 bits
Negate(val) ==
    IF val.lo = 0 THEN U32((PageNumbers - val.hi) % PageNumbers, 0)
    ELSE U32(PageNumbers - 1 - val.hi, PGSIZE - val.lo)

\* The digit loop: val = val * base + dig.
RECURSIVE StrtolDigits(_, _, _)
StrtolDigits(s, i, val) ==
    IF i <= Len(s) /\ DigitVal(s[i]) >= 0
    THEN StrtolDigits(s, i + 1, ShiftIn(val, DigitVal(s[i])))
    ELSE val

\* An optional sign, an optional "0x", then the digits; the long result
\* converted to uint32_t.
Strtol16(s) ==
    LET neg == Len(s) >= 1 /\ s[1] = "-"
        i0 == IF Len(s) >= 1 /\ s[1] \in {"+", "-"} THEN 2 ELSE 1
        i1 == IF Len(s) >= i0 + 1 /\ s[i0] = "0" /\ s[i0 + 1] = "x"
              THEN i0 + 2 ELSE i0
        val == StrtolDigits(s, i1, U32(0, 0))
    IN  IF neg THEN Negate(val) ELSE val

-----------------------------------------------------------------------------
(* The kernel page directory, as pgdir_walk(kern_pgdir, va, 0) sees it *)

\* The page table of va exists: the page-directory entry is present.
PdePresent(va) == (va.hi \div 1024) % 2 = 0

\* The page-table entry of va, when its page table exists: the frame
\* address in the upper 20 bits, the permission bits in the lower 12.
Pte(va) ==
    IF va.hi % 2 = 1 THEN U32(0, 0)
    ELSE U32((va.hi + 256) % PageNumbers, 3 + (IF va.hi % 4 = 2 THEN 4 ELSE 0))

\* NULL, or the entry pgdir_walk points to.
pgdir_walk(va) == IF PdePresent(va) THEN [pte |-> Pte(va)] ELSE NULL

PTE_ADDR(pte) == U32(pte.hi, 0)

-----------------------------------------------------------------------------
(* The kernel stack that mon_backtrace reads *)

StackTop == 17 * (2 ^ 16)  \* 0x00110000
FrameSize == 8 * 4  \* eight words

\* The frame base of the frame at depth i, 1 being the outermost.
FrameBase(i) == StackTop - FrameSize * i

\* *(uint32_t*)a for an address a of the stack.
Mem(a) ==
    LET i == (StackTop - a + FrameSize - 1) \div FrameSize
        o == a - FrameBase(i)
    IN  IF o = 0 THEN (IF i = 1 THEN 0 ELSE FrameBase(i - 1))
        ELSE IF o = 4 THEN (2 ^ 20) + 16 * i     \* a return address
        ELSE 100 * i + (o - 8) \div 4            \* an argument word

-----------------------------------------------------------------------------
(* What the operator types *)

tok_zzz == <<"z", "z", "z">>
tok_cont == <<"c", "o", "n", "t">>
tok_helpx == <<"h", "e", "l", "p", "x">>

FirstTokens == <<tok_help, tok_kerninfo, tok_backtrace, tok_showmappings,
                 tok_continue, tok_c, tok_si, tok_zzz, tok_cont, tok_helpx>>

\* The j-th argument of a line of plain arguments.
ArgTok(j) == IF j % 2 = 1 THEN <<"a">> ELSE <<"b", "2">>

\* The numbers of arguments typed after the first token: 0, 1, 2 and
\* 14 .. MaxTokens - 1.
ArgCounts == <<0, 1, 2>> \o [i \in 1..(MaxTokens - 14) |-> 13 + i]

\* The addresses typed to showmappings.
AddrToks == <<
    <<"0">>,
    <<"1">>,
    <<"0", "x", "1", "0", "0", "0">>,
    <<"2", "F", "F", "F">>,
    <<"8", "0", "0", "0", "0", "0", "0", "0">>,
    <<"f", "f", "f", "f", "e", "0", "0", "0">>,
    <<"f", "f", "f", "f", "f", "0", "0", "1">> >>

\* How a line is spaced: 0, one space between tokens; 1, leading and
\* trailing white space and runs of mixed white space between tokens.
SepRuns == << <<" ", " ">>, <<"\t">>, <<"\r", "\n">>, <<" ", "\t", " ">> >>

Sep(style, i) == IF style = 0 THEN <<" ">> ELSE SepRuns[(i % Len(SepRuns)) + 1]

RECURSIVE Join(_, _, _)
Join(toks, i, style) ==
    IF i > Len(toks) THEN <<>>
    ELSE toks[i] \o (IF i < Len(toks) THEN Sep(style, i) ELSE <<>>)
                 \o Join(toks, i + 1, style)

Text(toks, style) ==
    IF style = 0 THEN Join(toks, 1, style)
    ELSE <<" ", "\t">> \o Join(toks, 1, style) \o <<"\n">>

NPlain == Len(FirstTokens) * Len(ArgCounts)
NAddr == Len(AddrToks) * Len(AddrToks)

\* The lines of plain arguments, in both spacings; the showmappings lines
\* of two addresses, in alternating spacings; the empty line and a line of
\* white space.
NLines == 2 * NPlain + NAddr + 2

Lines == 1..NLines

\* The tokens line k is typed from.  (Here and below, \o <<>> makes the
\* function a tuple, computed once.)
Typed ==
    [k \in Lines |->
        IF k <= 2 * NPlain
        THEN LET j == (k - 1) \div 2
                 f == FirstTokens[(j \div Len(ArgCounts)) + 1]
                 n == ArgCounts[(j % Len(ArgCounts)) + 1]
             IN  <<f>> \o [i \in 1..n |-> ArgTok(i)]
        ELSE IF k <= 2 * NPlain + NAddr
        THEN LET j == k - 2 * NPlain - 1
             IN  <<tok_showmappings, AddrToks[(j \div Len(AddrToks)) + 1],
                   AddrToks[(j % Len(AddrToks)) + 1]>>
        ELSE <<>>] \o <<>>

\* The characters of line k, as readline returns them.
LineText == [k \in Lines |-> Text(Typed[k], k % 2)] \o <<>>

\* runcmd's parse of each line.
Parsed == [k \in Lines |-> Parse(LineText[k])] \o <<>>

\* What runcmd does with each line after parsing: "overflow", "empty",
\* "unknown", or the handler it invokes.
Target ==
    [k \in Lines |->
        LET p == Parsed[k] IN
        IF p.overflow THEN "overflow"
        ELSE IF Len(p.argv) = 0 THEN "empty"
        ELSE LET i == Lookup(CStr(p.buf, p.argv[1]), 1) IN
             IF i = 0 THEN "unknown" ELSE commands[i].func] \o <<>>

\* The lines that runcmd takes to f.
LinesTo(f) == {k \in Lines : Target[k] = f}

LinesOverflow == LinesTo("overflow")
LinesEmpty == LinesTo("empty")
LinesUnknown == LinesTo("unknown")
LinesHelp == LinesTo("mon_help")
LinesKerninfo == LinesTo("mon_kerninfo")
LinesBacktrace == LinesTo("mon_backtrace")
LinesShowmappings == LinesTo("mon_showmappings")
LinesContinue == LinesTo("mon_continue")
LinesSi == LinesTo("mon_si")

-----------------------------------------------------------------------------
(* Trap frames *)

TrapNos == {T_DEBUG, T_BRKPT, T_PGFLT}

\* eflags values at the first entry: 0x102 (TF set), 0x202 (TF clear, IF set)
EFlags == {258, 514}

Frames ==
    [tf_trapno : TrapNos, tf_eflags : EFlags,
     tf_eip : {8388640}, tf_esp : {U32(977918, 0)},
     tf_ebp : {U32(977918, 24)}]

\* What monitor() may be called with.
Entries == Frames \cup {NULL}

TraceFlag(t) == Bit(t.tf_eflags, FL_TF_SHIFT)

-----------------------------------------------------------------------------
(* monitor() *)

\* cprintf of the banner, and print_trapframe(tf) if tf != NULL
Banner(t) ==
    <<Msg("Welcome to the JOS kernel monitor!", <<>>, <<>>),
      Msg("Type 'help' for a list of commands.", <<>>, <<>>)>>
    \o (IF t # NULL THEN <<Msg("print_trapframe", <<>>, <<t.tf_trapno>>)>>
        ELSE <<>>)

\* The state in which monitor(t) reaches its loop.
Entered(t) ==
    /\ pc = "readline"
    /\ tf = t
    /\ entry_tf = t
    /\ typed = <<>>
    /\ buf = <<>>
    /\ argc = 0
    /\ argv = <<>>
    /\ path = "none"
    /\ func = "none"
    /\ ret = 0
    /\ out = Banner(t)
    /\ walks = <<>>
    /\ read_ebp = 0
    /\ start_addr = U32(0, 0)
    /\ end_addr = U32(0, 0)
    /\ page_addr = U32(0, 0)
    /\ null_deref = FALSE

\* A call of monitor(t) reaches its loop.
Call(t) ==
    /\ pc' = "readline"
    /\ tf' = t
    /\ entry_tf' = t
    /\ typed' = <<>>
    /\ buf' = <<>>
    /\ argc' = 0
    /\ argv' = <<>>
    /\ path' = "none"
    /\ func' = "none"
    /\ ret' = 0
    /\ out' = Banner(t)
    /\ walks' = <<>>
    /\ read_ebp' = 0
    /\ start_addr' = U32(0, 0)
    /\ end_addr' = U32(0, 0)
    /\ page_addr' = U32(0, 0)
    /\ null_deref' = FALSE

Init == \E t \in Entries : Entered(t)

MonitorBreaks_minus_one_only(r) == r = -1

\* if (runcmd(buf, tf) < 0) break;
MonitorBreaks(r) == r < 0

\* runcmd returns r to the loop of monitor().
Return(r) ==
    /\ ret' = r
    /\ pc' = IF MonitorBreaks(r) THEN "exited" ELSE "readline"

\* runcmd has parsed line l.
Tokenized(l) ==
    /\ typed' = Typed[l]
    /\ buf' = Parsed[l].buf
    /\ argv' = Parsed[l].argv
    /\ argc' = Len(Parsed[l].argv)

\* monitor(t) is called again by the caller that the last monitor()
\* returned to.
Enter(t) ==
    /\ pc = "exited" \/ (pc = "resumed" /\ tf = NULL)
    /\ Call(t)

\* The resumed environment traps with trap number n and the trap handler
\* calls monitor() with its trap frame: the flags are those it was resumed
\* with.
Trap(n) ==
    /\ pc = "resumed"
    /\ tf # NULL
    /\ Call([tf EXCEPT !.tf_trapno = n])

\* No frame base is read outside mon_backtrace.
NoFrame == read_ebp' = 0

\* The locals of mon_showmappings, outside it.
NoRange ==
    /\ NoFrame
    /\ start_addr' = U32(0, 0)
    /\ end_addr' = U32(0, 0)
    /\ page_addr' = U32(0, 0)

\* buf = readline("K> ") returned NULL: the loop reads again.
ReadNull ==
    /\ pc = "readline"
    /\ path # "none"
    /\ NoRange
    /\ path' = "none"
    /\ func' = "none"
    /\ typed' = <<>>
    /\ buf' = <<>>
    /\ argc' = 0
    /\ argv' = <<>>
    /\ ret' = 0
    /\ out' = <<>>
    /\ walks' = <<>>
    /\ UNCHANGED <<pc, tf, entry_tf, null_deref>>

-----------------------------------------------------------------------------
(* runcmd() without a handler *)

\* More than MAXARGS-1 tokens: "Too many arguments", return 0.
RunOverflow(l) ==
    /\ pc = "readline"
    /\ Target[l] = "overflow"
    /\ Tokenized(l)
    /\ path' = "overflow"
    /\ func' = "none"
    /\ out' = <<Msg("Too many arguments (max %d)", <<>>, <<MAXARGS>>)>>
    /\ walks' = <<>>
    /\ Return(0)
    /\ NoRange
    /\ UNCHANGED <<tf, entry_tf, null_deref>>

\* if (argc == 0) return 0;
RunEmpty(l) ==
    /\ pc = "readline"
    /\ Target[l] = "empty"
    /\ Tokenized(l)
    /\ path' = "empty"
    /\ func' = "none"
    /\ out' = <<>>
    /\ walks' = <<>>
    /\ Return(0)
    /\ NoRange
    /\ UNCHANGED <<tf, entry_tf, null_deref>>

\* No entry of the table matches argv[0]: "Unknown command", return 0.
RunUnknown(l) ==
    /\ pc = "readline"
    /\ Target[l] = "unknown"
    /\ Tokenized(l)
    /\ path' = "unknown"
    /\ func' = "none"
    /\ out' = <<Msg("Unknown command '%s'", CStr(Parsed[l].buf, Parsed[l].argv[1]), <<>>)>>
    /\ walks' = <<>>
    /\ Return(0)
    /\ NoRange
    /\ UNCHANGED <<tf, entry_tf, null_deref>>

-----------------------------------------------------------------------------
(* The handlers *)

\* runcmd found the handler f for line l and calls it.
Invoked(l, f) ==
    /\ pc = "readline"
    /\ Target[l] = f
    /\ Tokenized(l)
    /\ path' = "handler"
    /\ func' = f

\* mon_help: one line per command, return 0.
Help(l) ==
    /\ Invoked(l, "mon_help")
    /\ out' = [i \in 1..NCOMMANDS |-> Msg("%s - %s", commands[i].name, <<>>)]
    /\ walks' = <<>>
    /\ Return(0)
    /\ NoRange
    /\ UNCHANGED <<tf, entry_tf, null_deref>>

\* mon_kerninfo: seven lines, return 0.
Kerninfo(l) ==
    /\ Invoked(l, "mon_kerninfo")
    /\ out' = <<Msg("Special kernel symbols:", <<>>, <<>>),
                Msg("  _start", <<>>, <<>>),
                Msg("  entry", <<>>, <<>>),
                Msg("  etext", <<>>, <<>>),
                Msg("  edata", <<>>, <<>>),
                Msg("  end", <<>>, <<>>),
                Msg("Kernel executable memory footprint: %dKB", <<>>, <<>>)>>
    /\ walks' = <<>>
    /\ Return(0)
    /\ NoRange
    /\ UNCHANGED <<tf, entry_tf, null_deref>>

\* The loop of mon_backtrace from frame base ebp: per frame, the line of
\* ebp, eip and five argument words, then the line of debuginfo_eip.
RECURSIVE Unwind_stops_at_last_frame(_)
Unwind_stops_at_last_frame(ebp) ==
    IF ebp = 0 \/ Mem(ebp) = 0 THEN <<>>
    ELSE <<Msg("  ebp %08x  eip %08x  args %08x %08x %08x %08x %08x", <<>>,
               <<ebp, Mem(ebp + 4), Mem(ebp + 8), Mem(ebp + 12),
                 Mem(ebp + 16), Mem(ebp + 20), Mem(ebp + 24)>>),
           Msg("         %s:%d: %.*s+%d", <<>>, <<Mem(ebp + 4)>>)>>
         \o Unwind_stops_at_last_frame(Mem(ebp))

RECURSIVE Unwind(_)
Unwind(ebp) ==
    IF ebp = 0 THEN <<>>
    ELSE <<Msg("  ebp %08x  eip %08x  args %08x %08x %08x %08x %08x", <<>>,
               <<ebp, Mem(ebp + 4), Mem(ebp + 8), Mem(ebp + 12),
                 Mem(ebp + 16), Mem(ebp + 20), Mem(ebp + 24)>>),
           Msg("         %s:%d: %.*s+%d", <<>>, <<Mem(ebp + 4)>>)>>
         \o Unwind(Mem(ebp))

\* The values read_ebp() may give: the base of a frame of the stack, or 0
\* when no frame has been set up.
EbpValues == {0} \cup {FrameBase(d) : d \in 1..MaxDepth}

\* mon_backtrace, with ebp the value of read_ebp(); return 0.
Backtrace(l, ebp) ==
    /\ Invoked(l, "mon_backtrace")
    /\ read_ebp' = ebp
    /\ out' = <<Msg("Stack backtrace:", <<>>, <<>>)>> \o Unwind(ebp)
    /\ walks' = <<>>
    /\ Return(0)
    /\ start_addr' = U32(0, 0)
    /\ end_addr' = U32(0, 0)
    /\ page_addr' = U32(0, 0)
    /\ UNCHANGED <<tf, entry_tf, null_deref>>

RangeRejected_signed(s, e) == SignedLt(e, s)

\* if (end_addr < start_addr), on uint32_t
RangeRejected(s, e) == Lt(e, s)

\* mon_showmappings up to its loop: the usage error and the range error
\* return -1; otherwise page_addr = start_page and the loop is entered.
Showmappings(l) ==
    /\ Invoked(l, "mon_showmappings")
    /\ walks' = <<>>
    /\ IF Len(Parsed[l].argv) # 3
       THEN /\ out' = <<Msg("Usage: showmappings <start_addr> <end_addr>", <<>>, <<>>)>>
            /\ Return(-1)
            /\ NoRange
       ELSE LET s == Strtol16(CStr(Parsed[l].buf, Parsed[l].argv[2]))
                e == Strtol16(CStr(Parsed[l].buf, Parsed[l].argv[3]))
            IN  /\ NoFrame
                /\ start_addr' = s
                /\ end_addr' = e
                /\ IF RangeRejected(s, e)
                   THEN /\ out' = <<Msg("start_addr cannot exceed end_addr", <<>>, <<>>)>>
                        /\ Return(-1)
                        /\ page_addr' = U32(0, 0)
                   ELSE /\ out' = <<>>
                        /\ page_addr' = ROUNDDOWN(s)
                        /\ pc' = "showmappings"
                        /\ UNCHANGED ret
    /\ UNCHANGED <<tf, entry_tf, null_deref>>

\* page_addr < end_addr: the loop test of mon_showmappings
LoopTest(p, e) == Lt(p, e)

\* The line printed for page p.
PageLine(p) ==
    LET pte == pgdir_walk(p) IN
    IF pte = NULL
    THEN Msg("VA %08x is not mapped to physical address", <<>>, <<p.hi, p.lo>>)
    ELSE Msg("VA %08x is mapped to PA %08x permissions: PTE_P %x PTE_W %x PTE_U %x",
             <<>>,
             <<p.hi, p.lo, PTE_ADDR(pte.pte).hi, PTE_ADDR(pte.pte).lo,
               MaskBit(pte.pte.lo, 0), MaskBit(pte.pte.lo, 1),
               MaskBit(pte.pte.lo, 2)>>)

\* One iteration of the loop: walk, print, page_addr += PGSIZE in 32 bits.
ShowmappingsPage ==
    /\ pc = "showmappings"
    /\ LoopTest(page_addr, end_addr)
    /\ Len(out) < MaxLines
    /\ walks' = Append(walks, page_addr)
    /\ out' = Append(out, PageLine(page_addr))
    /\ page_addr' = AddPage(page_addr)
    /\ UNCHANGED <<pc, tf, entry_tf, typed, buf, argc, argv, path, func, ret,
                   read_ebp, start_addr, end_addr, null_deref>>

\* The loop test fails: return 0.
ShowmappingsReturn ==
    /\ pc = "showmappings"
    /\ ~LoopTest(page_addr, end_addr)
    /\ Return(0)
    /\ UNCHANGED <<tf, entry_tf, typed, buf, argc, argv, path, func, out, walks,
                   read_ebp, start_addr, end_addr, page_addr, null_deref>>

SupportedTrap_any(trapno) == TRUE

\* !(tf->tf_trapno != T_BRKPT && tf->tf_trapno != T_DEBUG)
SupportedTrap(trapno) == ~(trapno # T_BRKPT /\ trapno # T_DEBUG)

ContinueFlags_always_clears(t) == ClearBit(t.tf_eflags, FL_TF_SHIFT)

ContinueFlags_never_clears(t) == t.tf_eflags

\* if (tf->tf_trapno == T_DEBUG) tf->tf_eflags = tf->tf_eflags & ~(1 << 8);
ContinueFlags(t) ==
    IF t.tf_trapno = T_DEBUG THEN ClearBit(t.tf_eflags, FL_TF_SHIFT)
    ELSE t.tf_eflags

SiFlags_sets_bit_9(t) == SetBit(t.tf_eflags, FL_TF_SHIFT + 1)

SiFlags_toggles(t) ==
    IF Bit(t.tf_eflags, FL_TF_SHIFT) = 1 THEN ClearBit(t.tf_eflags, FL_TF_SHIFT)
    ELSE SetBit(t.tf_eflags, FL_TF_SHIFT)

\* tf->tf_eflags |= (0x1 << 8);
SiFlags(t) == SetBit(t.tf_eflags, FL_TF_SHIFT)

\* tf->tf_trapno read through a NULL tf: the behaviour is undefined.  The
\* kernel faults on the access, or the word read sends the handler to
\* panic() or on to env_run().
NullDeref ==
    /\ null_deref' = TRUE
    /\ pc' \in {"fault", "panicked", "resumed"}
    /\ UNCHANGED <<tf, ret>>

\* env_run(curenv): the environment runs from its saved trap frame; the
\* call does not return.
env_run ==
    /\ pc' = "resumed"
    /\ UNCHANGED ret

Resume_skips_env_run == Return(0)

\* env_run(curenv); return 0;  -- the return is never reached
Resume == env_run

Controller_flags_before_argc(usage, who, flags) ==
    /\ walks' = <<>>
    /\ NoRange
    /\ UNCHANGED entry_tf
    /\ IF tf = NULL
       THEN /\ out' = <<>>
            /\ NullDeref
       ELSE IF argc' # 1
       THEN /\ out' = <<Msg(usage, <<>>, <<>>)>>
            /\ Return(-1)
            /\ tf' = [tf EXCEPT !.tf_eflags = flags]
            /\ UNCHANGED null_deref
       ELSE IF ~SupportedTrap(tf.tf_trapno)
       THEN /\ out' = <<Msg("kernel panic", <<>>, <<>>), Msg(who, <<>>, <<>>)>>
            /\ pc' = "panicked"
            /\ UNCHANGED <<tf, ret, null_deref>>
       ELSE /\ out' = <<>>
            /\ tf' = [tf EXCEPT !.tf_eflags = flags]
            /\ Resume
            /\ UNCHANGED null_deref

\* The common shape of mon_continue and mon_si: the usage error returns -1,
\* an unexpected trap number panics, otherwise the flags are set and
\* env_run(curenv) resumes the environment and does not return.
Controller(usage, who, flags) ==
    /\ walks' = <<>>
    /\ NoRange
    /\ UNCHANGED entry_tf
    /\ IF argc' # 1
       THEN /\ out' = <<Msg(usage, <<>>, <<>>)>>
            /\ Return(-1)
            /\ UNCHANGED <<tf, null_deref>>
       ELSE IF tf = NULL
       THEN /\ out' = <<>>
            /\ NullDeref
       ELSE IF ~SupportedTrap(tf.tf_trapno)
       THEN /\ out' = <<Msg("kernel panic", <<>>, <<>>), Msg(who, <<>>, <<>>)>>
            /\ pc' = "panicked"
            /\ UNCHANGED <<tf, ret, null_deref>>
       ELSE /\ out' = <<>>
            /\ tf' = [tf EXCEPT !.tf_eflags = flags]
            /\ Resume
            /\ UNCHANGED null_deref

\* mon_continue
Continue(l) ==
    /\ Invoked(l, "mon_continue")
    /\ Controller("Usage: continue", "mon_continue: unexpected trap!",
                  IF tf = NULL THEN 0 ELSE ContinueFlags(tf))

\* mon_si
Si(l) ==
    /\ Invoked(l, "mon_si")
    /\ Controller("Usage: si", "mon_si: unexpected trap!",
                  IF tf = NULL THEN 0 ELSE SiFlags(tf))

-----------------------------------------------------------------------------
(* The monitor *)

Next ==
    \/ \E t \in Entries : Enter(t)
    \/ \E n \in TrapNos : Trap(n)
    \/ ReadNull
    \/ \E l \in LinesOverflow : RunOverflow(l)
    \/ \E l \in LinesEmpty : RunEmpty(l)
    \/ \E l \in LinesUnknown : RunUnknown(l)
    \/ \E l \in LinesHelp : Help(l)
    \/ \E l \in LinesKerninfo : Kerninfo(l)
    \/ \E l \in LinesBacktrace, ebp \in EbpValues : Backtrace(l, ebp)
    \/ \E l \in LinesShowmappings : Showmappings(l)
    \/ ShowmappingsPage
    \/ ShowmappingsReturn
    \/ \E l \in LinesContinue : Continue(l)
    \/ \E l \in LinesSi : Si(l)

Spec == Init /\ [][Next]_vars

-----------------------------------------------------------------------------
(* The loop test of monitor() on its own: runcmd returns the result r of a  *)
(* handler, which is any int (struct Command's func returns int).           *)

\* The results a handler is given to return: -MaxRet .. MaxRet.
MaxRet == 8

RetVals == (0 - MaxRet) .. MaxRet

\* One iteration of the loop of monitor() in which runcmd returns r.
RuncmdReturns(r) ==
    /\ pc = "readline"
    /\ path' = "handler"
    /\ func' = "handler"
    /\ Return(r)
    /\ UNCHANGED <<tf, entry_tf, typed, buf, argc, argv, out, walks,
                   read_ebp, start_addr, end_addr, page_addr, null_deref>>

NextLoop ==
    \/ \E r \in RetVals : RuncmdReturns(r)
    \/ \E t \in Entries : Enter(t)

SpecLoop == Init /\ [][NextLoop]_vars

-----------------------------------------------------------------------------
(* Properties *)

\* The last line was handled by handler f.
Ran(f) == path = "handler" /\ func = f

RangeError == Msg("start_addr cannot exceed end_addr", <<>>, <<>>)
TooMany == Msg("Too many arguments (max %d)", <<>>, <<16>>)

\* The last line was a recoverable user error: a wrong argument count for
\* showmappings, continue, c or si, a showmappings range with end < start,
\* an unknown command, or too many tokens.
UserError ==
    \/ path = "overflow"
    \/ path = "unknown"
    \/ Ran("mon_showmappings") /\ argc # 3
    \/ Ran("mon_showmappings") /\ argc = 3 /\ Lt(end_addr, start_addr)
    \/ Ran("mon_continue") /\ argc # 1
    \/ Ran("mon_si") /\ argc # 1

\* C1: after a line that is a recoverable user error a message has been
\* printed and monitor() is still in its loop, about to read the next line.
C1_UserErrorKeepsLoop ==
    UserError => (out # <<>> /\ pc = "readline")

TokensDispatched ==
    /\ path \in {"unknown", "handler"}
    /\ argc = Len(typed)
    /\ Len(argv) = argc
    /\ \A k \in 1..argc : CStr(buf, argv[k]) = typed[k] /\ typed[k] # <<>>

\* C3 as claimed: a line typed from N tokens, 1 <= N <= 16, with any white
\* space between them, is parsed into exactly those N tokens, in order, and
\* argc = N reaches the dispatch step.
C3_TokensUpTo16 ==
    (path # "none" /\ Len(typed) >= 1 /\ Len(typed) <= 16) => TokensDispatched

\* C3, amended: a line typed from N tokens, 1 <= N <= 15, with any white
\* space between them, is parsed into exactly those N tokens, in order, and
\* argc = N reaches the dispatch step.
C3_TokensUpTo15 ==
    (path # "none" /\ Len(typed) >= 1 /\ Len(typed) <= 15) => TokensDispatched

\* C3 witness: a line of 15 tokens with leading white space and mixed
\* separators was parsed and dispatched to a handler.
C3_Witness ==
    /\ Len(typed) = 15
    /\ path = "handler"
    /\ argc = 15
    /\ buf[1] = NUL

\* C4: a line of more than 15 tokens prints the argument-overflow message,
\* invokes no handler, returns 0 and leaves monitor() reading the next line.
C4_OverflowContinues ==
    (path # "none" /\ Len(typed) > 15)
        => /\ path = "overflow"
           /\ func = "none"
           /\ out = <<TooMany>>
           /\ ret = 0
           /\ pc = "readline"

\* C4 witness: a line of 16 tokens whose first token is help took the
\* overflow path.
C4_Witness ==
    /\ Len(typed) = 16
    /\ typed[1] = tok_help
    /\ path = "overflow"
    /\ pc = "readline"

\* The page addresses of the per-page lines printed so far.
PageLineVAs == [i \in 1..Len(out) |-> U32(out[i].nums[1], out[i].nums[2])]

\* The page-aligned addresses of [pageFloor(s), pageFloor(e)), ascending.
PagesBetween(s, e) == [i \in 1..(e.hi - s.hi) |-> U32(s.hi + i - 1, 0)]

\* C5: a showmappings with start <= end that has returned printed exactly
\* one per-page line for each page-aligned address in
\* [pageFloor(start), pageFloor(end)), in ascending order, and no other.
C5_PagesOfRange ==
    (Ran("mon_showmappings") /\ argc = 3 /\ ~Lt(end_addr, start_addr)
        /\ pc = "readline")
        => PageLineVAs = PagesBetween(start_addr, end_addr)

\* C6: showmappings a a prints no per-page line, whether a is page-aligned
\* or not.
C6_EmptyRange ==
    (Ran("mon_showmappings") /\ argc = 3 /\ start_addr = end_addr)
        => out = <<>>

\* C7: showmappings a b with b < a as unsigned 32-bit values prints the
\* range error, queries no page table and prints no per-page line.
C7_RangeRejected ==
    (Ran("mon_showmappings") /\ argc = 3 /\ Lt(end_addr, start_addr))
        => /\ out = <<RangeError>>
           /\ walks = <<>>
           /\ pc # "showmappings"

\* C7 witness: a range whose start has the top bit set and whose end is
\* below it was rejected.
C7_Witness ==
    /\ Ran("mon_showmappings")
    /\ argc = 3
    /\ start_addr.hi >= 2 ^ 19
    /\ Lt(end_addr, start_addr)
    /\ end_addr.hi < 2 ^ 19
    /\ out = <<RangeError>>

\* C8: a context resumed by continue (or c) has its trace flag clear if the
\* monitor was entered by a single-step trap, and has the trace flag it
\* was entered with if the monitor was entered by a breakpoint trap.
C8_ContinueTraceFlag ==
    (Ran("mon_continue") /\ argc = 1 /\ entry_tf # NULL
        /\ entry_tf.tf_trapno \in {T_DEBUG, T_BRKPT})
        => /\ pc = "resumed"
           /\ entry_tf.tf_trapno = T_DEBUG => TraceFlag(tf) = 0
           /\ entry_tf.tf_trapno = T_BRKPT => TraceFlag(tf) = TraceFlag(entry_tf)

\* C8 witness: continue after a single-step trap resumed a context that
\* was entered with the trace flag set, with the flag clear.
C8_Witness ==
    /\ Ran("mon_continue")
    /\ pc = "resumed"
    /\ entry_tf # NULL
    /\ entry_tf.tf_trapno = T_DEBUG
    /\ TraceFlag(entry_tf) = 1
    /\ TraceFlag(tf) = 0

\* C9: si entered after a breakpoint or a single-step trap resumes the
\* context with the trace flag set, whatever the flag was on entry.
C9_SiSetsTraceFlag ==
    (Ran("mon_si") /\ argc = 1 /\ entry_tf # NULL
        /\ entry_tf.tf_trapno \in {T_DEBUG, T_BRKPT})
        => (pc = "resumed" /\ TraceFlag(tf) = 1)

\* C9 witness: si resumed a context entered with the trace flag clear, with
\* the flag set.
C9_Witness ==
    /\ Ran("mon_si")
    /\ pc = "resumed"
    /\ entry_tf # NULL
    /\ TraceFlag(entry_tf) = 0
    /\ TraceFlag(tf) = 1

\* The last line invoked mon_continue or mon_si with a context whose trap
\* number is neither T_BRKPT nor T_DEBUG.
ControllerUnsupported ==
    /\ Ran("mon_continue") \/ Ran("mon_si")
    /\ entry_tf # NULL
    /\ entry_tf.tf_trapno \notin {T_DEBUG, T_BRKPT}

\* C10 as claimed: whenever continue, c or si is invoked with a context
\* whose trap number is neither breakpoint nor single-step, the kernel
\* panics: the handler neither returns nor resumes the context.
C10_UnsupportedPanics ==
    ControllerUnsupported => pc = "panicked"

\* C10, amended: whenever continue, c or si is invoked with no argument
\* after the command name (argc = 1) and with a context whose trap number
\* is neither breakpoint nor single-step, the kernel panics: the handler
\* neither returns nor resumes the context.
C10_UnsupportedPanicsArgc1 ==
    (ControllerUnsupported /\ argc = 1)
        => (pc = "panicked" /\ tf = entry_tf)

\* C10 witness: si with a page-fault trap frame panicked.
C10_Witness ==
    /\ Ran("mon_si")
    /\ argc = 1
    /\ entry_tf # NULL
    /\ entry_tf.tf_trapno = T_PGFLT
    /\ pc = "panicked"

\* The last line was continue, c or si alone, with a trap frame of a
\* breakpoint or single-step trap.
ControllerAccepted ==
    /\ Ran("mon_continue") \/ Ran("mon_si")
    /\ argc = 1
    /\ entry_tf # NULL
    /\ entry_tf.tf_trapno \in {T_DEBUG, T_BRKPT}

\* C11: continue, c or si leaves the loop of monitor() for the resumed
\* context, and from then on no line is read and no command is dispatched
\* until monitor() is entered anew, with its banner, by a trap.
C11_ResumedUntilTrap ==
    /\ [](ControllerAccepted => pc = "resumed")
    /\ [][pc = "resumed" =>
            \/ pc' = "resumed"
            \/ /\ pc' = "readline"
               /\ path' = "none"
               /\ entry_tf' = tf'
               /\ out' = Banner(tf')]_vars

\* C11 witness: si has resumed the saved context.
C11_Witness ==
    /\ Ran("mon_si")
    /\ entry_tf # NULL
    /\ pc = "resumed"
    /\ ret = 0
    /\ out = <<>>

\* The frame base a chain of depth k starts from: frame k of the stack,
\* whose callers are frames k-1 .. 1, the last with a saved base of 0.
ChainOfDepth(k) == IF k = 0 THEN 0 ELSE FrameBase(k)

\* The line of a frame record: "  ebp .. eip .. args .. .. .. .. ..".
FrameRecord(m) == m.fmt = "  ebp %08x  eip %08x  args %08x %08x %08x %08x %08x"

FrameRecords == SelectSeq(out, FrameRecord)

\* C12: backtrace from a chain of depth k prints exactly k frame records,
\* from the current frame to the outermost caller, each with its frame
\* base, the return address read at +4 and the five words at +8 .. +24;
\* from a frame base of 0 it prints none, and it returns 0 to the loop.
C12_BacktraceRecords ==
    \A k \in 0..MaxDepth :
        (Ran("mon_backtrace") /\ read_ebp = ChainOfDepth(k))
        => /\ Len(FrameRecords) = k
           /\ \A i \in 1..k :
                LET b == FrameBase(k + 1 - i)
                IN  FrameRecords[i].nums =
                        <<b, Mem(b + 4), Mem(b + 8), Mem(b + 12),
                          Mem(b + 16), Mem(b + 20), Mem(b + 24)>>
           /\ ret = 0
           /\ pc = "readline"

\* C12 witness: a backtrace over the deepest chain has run.
C12_Witness ==
    /\ Ran("mon_backtrace")
    /\ read_ebp = ChainOfDepth(MaxDepth)
    /\ Len(FrameRecords) = MaxDepth
    /\ FrameRecords[MaxDepth].nums[1] = FrameBase(1)

\* The names of the command table.
CommandNames == {commands[i].name : i \in 1..NCOMMANDS}

\* The last line had a first token, and it is the name of no command.
FirstTokenUnknown ==
    /\ path # "none"
    /\ Len(typed) >= 1
    /\ typed[1] \notin CommandNames

\* What runcmd does with an unknown command: the one message naming the
\* token, no handler, 0 returned to a loop that reads on.
ReportedUnknown ==
    /\ path = "unknown"
    /\ out = <<Msg("Unknown command '%s'", typed[1], <<>>)>>
    /\ func = "none"
    /\ ret = 0
    /\ pc = "readline"

\* C13 as claimed: every line whose first token is the name of no command
\* prints exactly one "Unknown command" message, invokes no handler and
\* returns 0.
C13_UnknownReported == FirstTokenUnknown => ReportedUnknown

\* C13: a line of at most 15 tokens whose first token is the name of no
\* command prints exactly one "Unknown command" message, naming that token,
\* invokes no handler and returns 0; monitor() reads the next line.  (A
\* longer line prints the argument-overflow message instead, C4.)
C13_UnknownReportedUpTo15 ==
    (FirstTokenUnknown /\ Len(typed) <= 15) => ReportedUnknown

\* C13 witness: a line of several tokens starting with an extension of a
\* command name was reported as unknown.
C13_Witness ==
    /\ FirstTokenUnknown
    /\ typed[1] = tok_helpx
    /\ Len(typed) > 1
    /\ ReportedUnknown

\* monitor() is in its loop or has left it by a handler's result: every
\* line since its entry was empty, too long, unknown, a help, kerninfo,
\* backtrace or showmappings line, or a continue, c or si line rejected for
\* its argument count.
NothingResumed == pc \in {"readline", "showmappings", "exited"}

\* C14: as long as no continue, c or si line has been accepted, the saved
\* context is field for field, flags included, the one monitor() was
\* entered with.
C14_ContextUntouched == NothingResumed => tf = entry_tf

\* C14 witness: si with an argument was rejected, and the saved flags are
\* still without the trace bit.
C14_Witness ==
    /\ Ran("mon_si")
    /\ argc = 2
    /\ ret = -1
    /\ tf # NULL
    /\ TraceFlag(tf) = 0
    /\ tf = entry_tf

\* C15: a line of no token, empty or of white space only, prints nothing,
\* invokes no handler and returns 0; monitor() reads the next line.
C15_EmptyLineSilent ==
    (path # "none" /\ typed = <<>>)
        => /\ path = "empty"
           /\ argc = 0
           /\ out = <<>>
           /\ walks = <<>>
           /\ func = "none"
           /\ ret = 0
           /\ pc = "readline"
           /\ tf = entry_tf

\* C15 witness: a line of white space only was read, and runcmd has
\* overwritten all of it.
C15_Witness ==
    /\ path = "empty"
    /\ typed = <<>>
    /\ Len(buf) > 0
    /\ \A i \in 1..Len(buf) : buf[i] = NUL
    /\ out = <<>>
    /\ ret = 0

\* C16: the loop of showmappings terminates for every start <= end.  The
\* loop is deterministic in page_addr and end_addr, so it terminates exactly
\* when every iteration leaves page_addr above where it was, closer to
\* end_addr: once page_addr += PGSIZE wraps to a lower address, the loop
\* test holds again for every page up to the one it wrapped from.
C16_CursorAdvances ==
    [][(pc = "showmappings" /\ pc' = "showmappings")
            => Lt(page_addr, page_addr')]_vars

\* continue or c has resumed the saved context.
ResumedByContinue == Ran("mon_continue") /\ pc = "resumed" /\ tf # NULL

\* C17 as claimed: whatever entries by breakpoint and single-step traps and
\* whatever si and continue lines came before, a context resumed by
\* continue or c has its trace flag clear, so that single-stepping stops.
C17_ContinueStopsStepping ==
    (Ran("mon_continue") /\ pc = "resumed" /\ tf # NULL)
        => TraceFlag(tf) = 0

\* C17: over any sequence of entries and si and continue lines, a context
\* resumed by continue or c has its trace flag set exactly when monitor()
\* was entered by a breakpoint trap with the flag set in the saved flags;
\* after a single-step entry, or an entry with the flag clear, it is clear.
C17_ContinueKeepsFlagAtBreakpoint ==
    ResumedByContinue
        => (TraceFlag(tf) = 1
                <=> (entry_tf.tf_trapno = T_BRKPT /\ TraceFlag(entry_tf) = 1))

\* C17 witness: flags 0x202 got the trace flag from si, the next entry was
\* a breakpoint trap, and continue resumed with the flag still set.
C17_Witness ==
    /\ ResumedByContinue
    /\ entry_tf.tf_trapno = T_BRKPT
    /\ entry_tf.tf_eflags = SetBit(514, FL_TF_SHIFT)
    /\ TraceFlag(tf) = 1

\* C18: when monitor() was entered with a NULL trap frame, no line makes a
\* handler read or write through it: every line, continue, c and si
\* included, completes or is rejected without the NULL pointer being
\* dereferenced.
C18_NullNeverDereferenced == entry_tf = NULL => ~null_deref

\* continue, c or si has resumed the saved context.
ResumedByController ==
    /\ Ran("mon_continue") \/ Ran("mon_si")
    /\ pc = "resumed"
    /\ tf # NULL

\* C19: the context continue, c or si resumes differs from the one monitor()
\* was entered with in at most bit 8 of the flags: every other bit of the
\* flags, the trap number, the instruction pointer and the stack and base
\* pointers are as on entry.
C19_OnlyBit8Changes ==
    ResumedByController
        => /\ ClearBit(tf.tf_eflags, FL_TF_SHIFT)
                = ClearBit(entry_tf.tf_eflags, FL_TF_SHIFT)
           /\ tf.tf_trapno = entry_tf.tf_trapno
           /\ tf.tf_eip = entry_tf.tf_eip
           /\ tf.tf_esp = entry_tf.tf_esp
           /\ tf.tf_ebp = entry_tf.tf_ebp
           /\ tf = [entry_tf EXCEPT !.tf_eflags = tf.tf_eflags]

\* C19 witness: si resumed flags 0x202 as 0x302; the interrupt flag, bit 9,
\* is still set.
C19_Witness ==
    /\ ResumedByController
    /\ Ran("mon_si")
    /\ entry_tf.tf_eflags = 514
    /\ tf.tf_eflags = 514 + 2 ^ FL_TF_SHIFT
    /\ Bit(tf.tf_eflags, 9) = 1

\* The first entry of the command table whose name is t, or 0.
FirstEntryNamed(t) ==
    IF t \in CommandNames
    THEN CHOOSE i \in 1..NCOMMANDS :
            /\ commands[i].name = t
            /\ \A j \in 1..(i - 1) : commands[j].name # t
    ELSE 0

\* C20: a line that reaches the lookup is dispatched on its first token t
\* by exact match in table order: the handler invoked is that of the first
\* entry named t, with the line's tokens as arguments; with no such entry
\* the line is reported as unknown, as are "cont" and "helpx"; c and
\* continue both invoke mon_continue.
C20_ExactMatchDispatch ==
    path \in {"unknown", "handler"}
        => LET t == typed[1]
               i == FirstEntryNamed(t)
           IN  /\ i = 0 => (path = "unknown" /\ func = "none")
               /\ i # 0 => (path = "handler" /\ func = commands[i].func)
               /\ t \in {tok_cont, tok_helpx} => path = "unknown"
               /\ t \in {tok_c, tok_continue} => Ran("mon_continue")
               /\ TokensDispatched

\* C20 witness: a line starting with "cont", a prefix of continue, was
\* reported as unknown.
C20_Witness ==
    /\ path = "unknown"
    /\ typed[1] = tok_cont
    /\ func = "none"
    /\ out = <<Msg("Unknown command '%s'", tok_cont, <<>>)>>

=============================================================================
